---- MODULE Spec2Model ----
(***************************************************************************)
(* A model of buck_file_generator.py: the dependency-list formatter, the   *)
(* diagnostics parser, the Declaration Editor (modify_buck_rule), the      *)
(* Convergence Loop (add_missing_deps) and the Import Resolver             *)
(* (get_deps_for_files).                                                   *)
(*                                                                         *)
(* Text is modelled as sequences of character codes, so that Python's      *)
(* string order (sorted) and string surgery (split, lstrip, format) are    *)
(* computed and not assumed.                                               *)
(***************************************************************************)
EXTENDS Integers, Sequences, FiniteSets, TLC

VARIABLES
    mode,               \* which component this behaviour exercises
    fmt_deps,           \* format: the dependency set handed to the formatter
    fmt_prev,           \* format: the previous emission for the same set
    fmt_out,            \* format: the latest emission (a sequence of lines)
    fs,                 \* the BUCK files on disk: directory -> file content
    last,               \* the latest modify_buck_rule call: arguments, file before, outcome
    p_rule,             \* parse: the failing target
    p_output,           \* parse: the build tool's diagnostic text, line by line
    p_result,           \* parse: what find_missing_deps_from_output returned
    buck_rules,         \* loop: the generated targets, in order
    android_libraries,  \* loop: the PlatformLibrarySet
    pc,                 \* loop: where add_missing_deps is
    idx,                \* loop: position of the pass in buck_rules
    files_changed,      \* loop: the pass's modification count
    pass_count,         \* loop: the number of the pass
    settled,            \* loop: whether the latest pass changed nothing
    build,              \* loop: the latest build's return code and stderr
    tool,               \* loop: what the build tool is assumed to do
    writes,             \* loop: the files written during the pass (history)
    added,              \* loop: how often each dependency was added to each target (history)
    src_roots,          \* resolve: the recognized source roots, in order
    third_party_map,    \* resolve: the Class Index, class name -> owning target
    tree,               \* resolve: the files of the project: path -> lines
    split_interfaces,   \* resolve: args.split_interfaces
    g_root,             \* resolve: the directory analysed (root)
    g_files,            \* resolve: its files handed over, in iteration order
    g_rule_name,        \* resolve: the local rule_name of get_deps_for_files
    g_lines,            \* resolve: the lines still to read
    g_deps,             \* resolve: deps
    g_has_android_deps, \* resolve: has_android_deps
    g_pc,               \* resolve: where get_deps_for_files is
    gen_walk,           \* generate: the directories os.walk has still to yield, with their files
    gen_pc,             \* generate: where generate_default_buck_files is
    interface_files,    \* generate: the interface subset computed for each directory
    a_rule,             \* audit: the target get_files_for_rule was called for
    a_existing_deps,    \* audit: existing_deps, the set empty_deps collects
    a_before,           \* audit: the BUCK files when get_files_for_rule was called (history)
    a_calls,            \* audit: the calls find_smallest_dep has made for the target
    a_pc                \* audit: where get_files_for_rule is

fmtVars == <<fmt_deps, fmt_prev, fmt_out>>
editVars == <<fs, last>>
parseVars == <<p_rule, p_output, p_result>>
loopVars ==
    <<buck_rules, android_libraries, pc, idx, files_changed, pass_count, settled, build,
      tool, writes, added>>
resolveVars ==
    <<src_roots, third_party_map, tree, split_interfaces, g_root, g_files, g_rule_name,
      g_lines, g_deps, g_has_android_deps, g_pc>>
genVars == <<gen_walk, gen_pc, interface_files>>
auditVars == <<a_rule, a_existing_deps, a_before, a_calls, a_pc>>
vars ==
    <<mode, fmt_deps, fmt_prev, fmt_out, fs, last, p_rule, p_output, p_result,
      buck_rules, android_libraries, pc, idx, files_changed, pass_count, settled, build,
      tool, writes, added, src_roots, third_party_map, tree, split_interfaces, g_root,
      g_files, g_rule_name, g_lines, g_deps, g_has_android_deps, g_pc, gen_walk, gen_pc,
      interface_files, a_rule, a_existing_deps, a_before, a_calls, a_pc>>

(***************************************************************************)
(* Characters and strings                                                  *)
(***************************************************************************)
Space == 32
Apos == 39
Comma == 44

Min(a, b) == IF a < b THEN a ELSE b

\* Python's < on str: code-point lexicographic, a proper prefix sorts first.
StrLess(s, t) ==
    \E k \in 0..Min(Len(s), Len(t)) :
        /\ \A i \in 1..k : s[i] = t[i]
        /\ \/ k = Len(s) /\ k < Len(t)
           \/ k < Len(s) /\ k < Len(t) /\ s[k + 1] < t[k + 1]

\* "     '{0}',".format(dep)
FormatDep(dep) == <<Space, Space, Space, Space, Space, Apos>> \o dep \o <<Apos, Comma>>

\* sorted(): the ascending arrangement of the items of a sequence
\* (insertion of each item after the items not greater than it).
RECURSIVE Insert(_, _)
Insert(x, s) ==
    IF s = <<>> THEN <<x>>
    ELSE IF StrLess(x, Head(s)) THEN <<x>> \o s
    ELSE <<Head(s)>> \o Insert(x, Tail(s))

RECURSIVE sorted(_)
sorted(s) == IF s = <<>> THEN <<>> ELSE Insert(Head(s), sorted(Tail(s)))

\* The mutant of format_deps_for_buck_file that forgets to sort.
format_deps_unsorted(deps) == [i \in 1..Len(deps) |-> FormatDep(deps[i])]

\* format_deps_for_buck_file(deps); deps is the iteration order of the
\* iterable it is given.
format_deps_for_buck_file(deps) ==
    sorted([i \in 1..Len(deps) |-> FormatDep(deps[i])])

\* The iteration orders a Python set may present its elements in.
Orders(S) ==
    {s \in [1..Cardinality(S) -> S] : \A i, j \in 1..Cardinality(S) : i # j => s[i] # s[j]}

(***************************************************************************)
(* The formatter on its own                                                *)
(***************************************************************************)
MaxDeps == 3

\* Identifiers: "#", "-", "a", "a#", "a-", "aa", "b", "a#a"
FmtIds ==
    {<<35>>, <<45>>, <<97>>, <<97, 35>>, <<97, 45>>, <<97, 97>>, <<98>>, <<97, 35, 97>>}

NoEmission == [done |-> FALSE, lines |-> <<>>]

FmtIdle ==
    /\ fmt_deps = {}
    /\ fmt_prev = NoEmission
    /\ fmt_out = NoEmission

EditIdle ==
    /\ fs = <<>>
    /\ last = [done |-> FALSE]

ParseIdle ==
    /\ p_rule = <<>>
    /\ p_output = <<>>
    /\ p_result = [done |-> FALSE, deps |-> {}]

LoopQuiet ==
    /\ buck_rules = <<>>
    /\ pc = "idle"
    /\ idx = 0
    /\ files_changed = 0
    /\ pass_count = 0
    /\ settled = FALSE
    /\ build = [failed |-> FALSE, err |-> <<>>]
    /\ tool = [honest |-> FALSE, needs |-> <<>>]
    /\ writes = 0
    /\ added = <<>>

LoopIdle ==
    /\ LoopQuiet
    /\ android_libraries = {}

GenIdle ==
    /\ gen_walk = <<>>
    /\ gen_pc = "idle"
    /\ interface_files = <<>>

AuditIdle ==
    /\ a_rule = <<>>
    /\ a_existing_deps = {}
    /\ a_before = <<>>
    /\ a_calls = 0
    /\ a_pc = "idle"

GetDepsIdle ==
    /\ g_root = <<>>
    /\ g_files = <<>>
    /\ g_rule_name = <<>>
    /\ g_lines = <<>>
    /\ g_deps = {}
    /\ g_has_android_deps = FALSE
    /\ g_pc = "idle"

ResolveIdle ==
    /\ src_roots = <<>>
    /\ third_party_map = <<>>
    /\ tree = <<>>
    /\ split_interfaces = FALSE
    /\ g_root = <<>>
    /\ g_files = <<>>
    /\ g_rule_name = <<>>
    /\ g_lines = <<>>
    /\ g_deps = {}
    /\ g_has_android_deps = FALSE
    /\ g_pc = "idle"

FmtInit ==
    /\ mode = "format"
    /\ GenIdle
    /\ AuditIdle
    /\ ResolveIdle
    /\ EditIdle
    /\ ParseIdle
    /\ LoopIdle
    /\ fmt_deps \in {S \in SUBSET FmtIds : Cardinality(S) <= MaxDeps}
    /\ fmt_prev = NoEmission
    /\ fmt_out = NoEmission

\* One run of the program emitting the list for the set; the set's
\* iteration order is whatever the run happens to present.
FmtEmit ==
    /\ mode = "format"
    /\ ~fmt_prev.done
    /\ \E order \in Orders(fmt_deps) :
          /\ fmt_out' = [done |-> TRUE, lines |-> format_deps_for_buck_file(order)]
          /\ fmt_prev' = fmt_out
    /\ UNCHANGED <<mode, auditVars, genVars, resolveVars, fmt_deps, editVars, parseVars, loopVars>>

FmtNext == FmtEmit

SpecFormat == FmtInit /\ [][FmtNext]_vars

\* The identifier a formatted line carries.
FormattedId(line) == SubSeq(line, 7, Len(line) - 2)

EmitsEachOnce ==
    /\ Len(fmt_out.lines) = Cardinality(fmt_deps)
    /\ {fmt_out.lines[i] : i \in 1..Len(fmt_out.lines)} = {FormatDep(d) : d \in fmt_deps}

\* C6 as stated: every emission lists each dependency exactly once, in
\* lexicographic order of the target identifiers, and two emissions for the
\* same set are the same sequence.
C6_SortedByIdentifier ==
    fmt_out.done =>
        /\ EmitsEachOnce
        /\ \A i, j \in 1..Len(fmt_out.lines) :
              i < j => StrLess(FormattedId(fmt_out.lines[i]), FormattedId(fmt_out.lines[j]))
        /\ fmt_prev.done => fmt_prev.lines = fmt_out.lines

\* C6 as amended: every emission lists each dependency exactly once, in
\* lexicographic order of the emitted lines (the identifier followed by the
\* closing quote and comma), and two emissions for the same set are the same
\* sequence whatever order the set was iterated in.
C6_SortedByLine ==
    fmt_out.done =>
        /\ EmitsEachOnce
        /\ \A i, j \in 1..Len(fmt_out.lines) :
              i < j => StrLess(fmt_out.lines[i], fmt_out.lines[j])
        /\ fmt_prev.done => fmt_prev.lines = fmt_out.lines

\* A set of three dependencies has been emitted twice.
C6_Witness ==
    /\ mode = "format"
    /\ fmt_prev.done
    /\ fmt_out.done
    /\ Cardinality(fmt_deps) = MaxDeps

(***************************************************************************)
(* Build files                                                             *)
(*                                                                         *)
(* A file is its lines (readlines) and whether the last line is terminated.*)
(* A line is a record: t is what the line is, txt and s carry its text, ws *)
(* says that whitespace trails it.  A "text" line is spelled out in s.     *)
(***************************************************************************)
Slash == 47
Colon == 58

Ln(t, txt, s) == [t |-> t, txt |-> txt, s |-> s, ws |-> FALSE]

OpenLine(kind) == Ln("open", kind, <<>>)            \* "<kind>("
NameLine(n) == Ln("name", "", n)                    \* "  name = '<n>',"
DepsStartLine == Ln("depsStart", "", <<>>)          \* "  deps = ["
ListEndLine == Ln("listEnd", "", <<>>)              \* "  ],"
OtherLine(txt) == Ln("other", txt, <<>>)            \* a line no pattern matches
BlankLine == Ln("blank", "", <<>>)                  \* ""
TextLine(s) == Ln("text", "", s)

\* line.rstrip()
rstrip(line) == [line EXCEPT !.ws = FALSE]

\* NAME_DECLARATION.match(line): the declared name, in a one-element set.
NAME_DECLARATION(line) == IF line.t = "name" THEN {line.s} ELSE {}

\* DEPS_START.match(line); the pattern ends in $, so trailing whitespace
\* defeats it.
DEPS_START(line) == line.t = "depsStart" /\ ~line.ws

\* line.endswith('],')
EndsList(line) == line.t = "listEnd" /\ ~line.ws

\* DEP_DECLARATION.match(line): \s*'(\S*)', anchored at the start only; the
\* group is greedy, so it ends at the last quote-comma no whitespace precedes.
DEP_DECLARATION(line) ==
    IF line.t # "text" THEN {}
    ELSE LET s == line.s
             p == Cardinality({i \in 1..Len(s) : \A j \in 1..i : s[j] = Space})
             ends == {q \in (p + 2)..(Len(s) - 1) :
                          /\ s[q] = Apos
                          /\ s[q + 1] = Comma
                          /\ \A i \in (p + 2)..(q - 1) : s[i] # Space}
         IN IF p < Len(s) /\ s[p + 1] = Apos /\ ends # {}
            THEN {SubSeq(s, p + 2, (CHOOSE q \in ends : \A r \in ends : r <= q) - 1)}
            ELSE {}

\* line.startswith(new_rule_type)
StartsWithKind(line, kind) == line.t = "open" /\ line.txt = kind

\* '\n'.join(lines), as the file it makes: an empty last item leaves the
\* line before it terminated, any other last item is left unterminated.
Join(lines) ==
    IF lines = <<>> \/ lines = <<BlankLine>> THEN [lines |-> <<>>, nl |-> FALSE]
    ELSE IF lines[Len(lines)] = BlankLine
         THEN [lines |-> SubSeq(lines, 1, Len(lines) - 1), nl |-> TRUE]
         ELSE [lines |-> lines, nl |-> FALSE]

RECURSIVE lstrip(_, _)
lstrip(s, c) == IF s # <<>> /\ Head(s) = c THEN lstrip(Tail(s), c) ELSE s

RECURSIVE split(_, _)
split(s, c) ==
    IF \A i \in 1..Len(s) : s[i] # c THEN <<s>>
    ELSE LET k == CHOOSE i \in 1..Len(s) : s[i] = c /\ \A j \in 1..(i - 1) : s[j] # c
         IN <<SubSeq(s, 1, k - 1)>> \o split(SubSeq(s, k + 1, Len(s)), c)

\* '//{0}:{1}'.format(dir, name)
Target(dir, name) == <<Slash, Slash>> \o dir \o <<Colon>> \o name

(***************************************************************************)
(* The replace-functions the callers pass as new_deps_fn                   *)
(***************************************************************************)
NoFn == [tag |-> "none", arg |-> {}]
UnionFn(S) == [tag |-> "union", arg |-> S]      \* update_deps, existing_deps.union
ConstFn(S) == [tag |-> "const", arg |-> S]      \* empty_deps when S = {}

ApplyFn(fn, x) == IF fn.tag = "union" THEN x \cup fn.arg ELSE fn.arg

NoKind == ""

(***************************************************************************)
(* modify_buck_rule                                                        *)
(***************************************************************************)
ScanStart ==
    [out |-> <<>>, existing_deps |-> {}, found_deps_open |-> FALSE,
     found_deps_close |-> FALSE, found_rule_name |-> FALSE,
     modified_file |-> FALSE, raised |-> FALSE, passed |-> {}]

\* The list lines written in place of the old ones.
EmittedList(new_deps) ==
    LET f == format_deps_for_buck_file(CHOOSE o \in Orders(new_deps) : TRUE)
    IN <<DepsStartLine>> \o [i \in 1..Len(f) |-> TextLine(f[i])] \o <<ListEndLine>>

\* The mutant of OpensDeps that lets the list of any rule open the block.
OpensDepsAnyRule(st, line) == DEPS_START(line) /\ ~st.found_deps_close

\* elif found_rule_name and DEPS_START.match(line) and not found_deps_close
OpensDeps(st, line) == st.found_rule_name /\ DEPS_START(line) /\ ~st.found_deps_close

\* The mutant of DepsChanged that reports every rewrite of the list as a change.
DepsChangedAlways(new_deps, existing_deps) == TRUE

\* if new_deps != existing_deps
DepsChanged(new_deps, existing_deps) == new_deps # existing_deps

\* The body of the loop over the file's lines.  passed holds the set handed
\* to new_deps_fn, once it has been called.
ScanLine(st, raw, rule_name, new_deps_fn, new_rule_type) ==
    LET line == rstrip(raw) IN
    IF st.raised THEN st
    ELSE IF rule_name \in NAME_DECLARATION(line) THEN
        IF new_rule_type # NoKind /\ st.out = <<>> THEN
            [st EXCEPT !.raised = TRUE]                     \* [-1] of an empty list
        ELSE IF new_rule_type # NoKind
                /\ ~StartsWithKind(st.out[Len(st.out)], new_rule_type) THEN
            [st EXCEPT !.found_rule_name = TRUE,
                       !.out = Append([st.out EXCEPT ![Len(st.out)] = OpenLine(new_rule_type)],
                                      line),
                       !.modified_file = TRUE]
        ELSE [st EXCEPT !.found_rule_name = TRUE, !.out = Append(st.out, line)]
    ELSE IF OpensDeps(st, line) THEN
        [st EXCEPT !.found_deps_open = TRUE]
    ELSE IF st.found_deps_open /\ ~st.found_deps_close THEN
        IF EndsList(line) THEN
            IF new_deps_fn.tag = "none" THEN
                [st EXCEPT !.raised = TRUE]                 \* None is not callable
            ELSE
                LET new_deps == ApplyFn(new_deps_fn, st.existing_deps) IN
                [st EXCEPT !.out = st.out \o EmittedList(new_deps),
                           !.passed = {st.existing_deps},
                           !.modified_file = st.modified_file
                                                \/ DepsChanged(new_deps, st.existing_deps),
                           !.found_deps_close = TRUE]
        ELSE [st EXCEPT !.existing_deps = st.existing_deps \cup DEP_DECLARATION(line)]
    ELSE [st EXCEPT !.out = Append(st.out, line)]

RECURSIVE Scan(_, _, _, _, _)
Scan(st, lines, rule_name, new_deps_fn, new_rule_type) ==
    IF lines = <<>> THEN st
    ELSE Scan(ScanLine(st, Head(lines), rule_name, new_deps_fn, new_rule_type),
              Tail(lines), rule_name, new_deps_fn, new_rule_type)

\* modify_buck_rule(buck_rule, new_deps_fn, new_rule_type) on the files
\* fsys: the files afterwards, the value returned, whether it raised, and the
\* set new_deps_fn was called with (empty when it was not called).
\* The debugger stop before the write is passed through: the operator resumes.
modify_buck_rule(fsys, buck_rule, new_deps_fn, new_rule_type) ==
    LET parts == split(lstrip(buck_rule, Slash), Colon)
        buck_file == parts[1]
        whole == split(buck_rule, Colon)
    IN IF Len(whole) < 2 \/ buck_file \notin DOMAIN fsys THEN
           [fs |-> fsys, ret |-> FALSE, raised |-> TRUE, passed |-> {}]
       ELSE LET rule_name == whole[2]
                st == Scan(ScanStart, fsys[buck_file].lines, rule_name,
                           new_deps_fn, new_rule_type)
            IN IF st.raised THEN
                   [fs |-> fsys, ret |-> FALSE, raised |-> TRUE, passed |-> st.passed]
               ELSE IF st.modified_file THEN
                   [fs |-> [fsys EXCEPT ![buck_file] = Join(st.out)],
                    ret |-> TRUE, raised |-> FALSE, passed |-> st.passed]
               ELSE [fs |-> fsys, ret |-> FALSE, raised |-> FALSE, passed |-> st.passed]

(***************************************************************************)
(* The templates the generated files are written from                      *)
(***************************************************************************)
PublicLine == TextLine(<<32, 32, 32, 32, 39, 80, 85, 66, 76, 73, 67, 39, 44>>)  \* "    'PUBLIC',"

VisibilityLines == <<OtherLine("  visibility = ["), PublicLine, ListEndLine>>

\* '\n'.join(lines) substituted for a placeholder on a line of its own.
JoinedInto(lines) == IF lines = <<>> THEN <<BlankLine>> ELSE lines

\* BUCK_FILE_TEMPLATE.format(library_type, name, sources, deps)
BUCK_FILE_TEMPLATE(library_type, name, sources, deps) ==
    <<OpenLine(library_type), NameLine(name), OtherLine(sources), DepsStartLine>>
    \o JoinedInto([i \in 1..Len(deps) |-> TextLine(deps[i])])
    \o <<ListEndLine>> \o VisibilityLines \o <<OtherLine(")"), BlankLine>>

\* ANDROID_RESOURCE_TEMPLATE
ANDROID_RESOURCE_TEMPLATE ==
    <<OpenLine("android_resource"), NameLine(<<114, 101, 115>>),
      OtherLine("  package = '{package}',"), OtherLine("  res = 'res',"),
      DepsStartLine, ListEndLine>>
    \o VisibilityLines \o <<OtherLine(")"), BlankLine>>

\* ANDROID_BUILD_CONFIG_TEMPLATE
ANDROID_BUILD_CONFIG_TEMPLATE ==
    <<OpenLine("android_build_config"),
      NameLine(<<98, 117, 105, 108, 100, 45, 99, 111, 110, 102, 105, 103>>),
      OtherLine("  package = '{package}',")>>
    \o VisibilityLines \o <<OtherLine(")"), BlankLine>>

\* What a sequence of write() calls leaves in a freshly opened file: every
\* template ends its last line.
Written(lines) == [lines |-> lines, nl |-> lines # <<>>]

(***************************************************************************)
(* The Declaration Editor on its own                                       *)
(***************************************************************************)
DirA == <<97>>                  \* "a"
DirQ == <<113>>                 \* "q", a directory without a build file
NameX == <<120>>                \* "x"
NameY == <<121>>                \* "y"
NameZ == <<122>>                \* "z", declared nowhere
NameRes == <<114, 101, 115>>    \* "res"
NameBuildConfig == <<98, 117, 105, 108, 100, 45, 99, 111, 110, 102, 105, 103>>

TargetB == <<47, 47, 98, 58, 98>>       \* "//b:b"
TargetC == <<47, 47, 99, 58, 99>>       \* "//c:c"
EditIds == {TargetB, TargetC}
EditDepSets == {{}, {TargetB}, {TargetB, TargetC}}
EditKinds == {"java_library", "android_library"}

LibraryBlock(kind, name, deps, trailing) ==
    LET b == BUCK_FILE_TEMPLATE(kind, name, "  srcs = glob(['*.java']),",
                                format_deps_for_buck_file(CHOOSE o \in Orders(deps) : TRUE))
    IN [b EXCEPT ![3].ws = trailing]

EditBlocks ==
    {[name |-> n, lines |-> LibraryBlock(k, n, d, w)] :
        n \in {NameX, NameY}, k \in EditKinds, d \in EditDepSets, w \in BOOLEAN}
    \cup {[name |-> NameRes, lines |-> ANDROID_RESOURCE_TEMPLATE],
          [name |-> NameBuildConfig, lines |-> ANDROID_BUILD_CONFIG_TEMPLATE]}

\* Build files of one or two rules, as written from the templates or as a
\* hand edit (trailing whitespace) or an earlier rewrite (join) left them.
EditFiles ==
    LET lineSeqs == {b.lines : b \in EditBlocks}
                    \cup {p[1].lines \o p[2].lines :
                            p \in {q \in EditBlocks \X EditBlocks : q[1].name # q[2].name}}
    IN {Written(l) : l \in lineSeqs}
       \cup {Join([i \in 1..Len(l) |-> rstrip(l[i])]) : l \in lineSeqs}

EditRules ==
    {Target(DirA, n) : n \in {NameX, NameY, NameZ, NameRes, NameBuildConfig}}
    \cup {Target(DirQ, NameX)}

EditFns == {NoFn} \cup {UnionFn(S) : S \in SUBSET EditIds} \cup {ConstFn(S) : S \in SUBSET EditIds}

NoCall ==
    [done |-> FALSE, rule |-> <<>>, fn |-> NoFn, kind |-> NoKind, before |-> <<>>,
     ret |-> FALSE, raised |-> FALSE, passed |-> {}]

EditInit ==
    /\ mode = "edit"
    /\ GenIdle
    /\ AuditIdle
    /\ ResolveIdle
    /\ FmtIdle
    /\ ParseIdle
    /\ LoopIdle
    /\ \E f \in EditFiles : fs = (DirA :> f)
    /\ last = NoCall

\* One call of modify_buck_rule.
ModifyBuckRule ==
    /\ mode = "edit"
    /\ ~last.done
    /\ \E rule \in EditRules, fn \in EditFns, kind \in {NoKind, "android_library"} :
          LET r == modify_buck_rule(fs, rule, fn, kind) IN
          /\ fs' = r.fs
          /\ last' = [done |-> TRUE, rule |-> rule, fn |-> fn, kind |-> kind, before |-> fs,
                      ret |-> r.ret, raised |-> r.raised, passed |-> r.passed]
    /\ UNCHANGED <<mode, auditVars, genVars, resolveVars, fmtVars, parseVars, loopVars>>

EditNext == ModifyBuckRule

SpecEdit == EditInit /\ [][EditNext]_vars

(***************************************************************************)
(* What a build file declares, read rule by rule: a rule runs from its     *)
(* opening line to the line before the next opening line.                  *)
(***************************************************************************)
First(S) == CHOOSE i \in S : \A j \in S : i <= j

NameIdx(lines, n) == {i \in 1..Len(lines) : n \in NAME_DECLARATION(lines[i])}

Declares(lines, n) == NameIdx(lines, n) # {}

\* The last line of the rule declared at line i.
RuleEnd(lines, i) ==
    LET opens == {j \in (i + 1)..Len(lines) : lines[j].t = "open"}
    IN IF opens = {} THEN Len(lines) ELSE First(opens) - 1

\* The lines of rule n's own dependency list, brackets included.
OwnListIdx(lines, n) ==
    IF ~Declares(lines, n) THEN {}
    ELSE LET i == First(NameIdx(lines, n))
             e == RuleEnd(lines, i)
             starts == {j \in (i + 1)..e : lines[j].t = "depsStart"}
         IN IF starts = {} THEN {}
            ELSE LET ends == {j \in (First(starts) + 1)..e : lines[j].t = "listEnd"}
                 IN IF ends = {} THEN {} ELSE First(starts)..First(ends)

HasOwnList(lines, n) == OwnListIdx(lines, n) # {}

OwnDeps(lines, n) == UNION {DEP_DECLARATION(lines[j]) : j \in OwnListIdx(lines, n)}

\* The opening line of rule n: the line before its name.
OwnOpenIdx(lines, n) ==
    IF Declares(lines, n) /\ First(NameIdx(lines, n)) > 1
    THEN {First(NameIdx(lines, n)) - 1} ELSE {}

OwnKind(lines, n) == {lines[j].txt : j \in {k \in OwnOpenIdx(lines, n) : lines[k].t = "open"}}

DeclaredNames(lines) == UNION {NAME_DECLARATION(lines[i]) : i \in 1..Len(lines)}

\* The lines at the indices in keep, in order.
RECURSIVE Keep(_, _, _)
Keep(lines, keep, i) ==
    IF i > Len(lines) THEN <<>>
    ELSE (IF i \in keep THEN <<lines[i]>> ELSE <<>>) \o Keep(lines, keep, i + 1)

\* The file with rule n's dependency list, and its opening line if the kind
\* was to be overridden, taken out.
Outside(file, n, kind) ==
    LET drop == OwnListIdx(file.lines, n)
                \cup (IF kind # NoKind THEN OwnOpenIdx(file.lines, n) ELSE {})
    IN [lines |-> Keep(file.lines, (1..Len(file.lines)) \ drop, 1), nl |-> file.nl]

LastFile == last.before[DirA]
LastName == split(last.rule, Colon)[2]
LastInA == split(lstrip(last.rule, Slash), Colon)[1] = DirA
EditDone == mode = "edit" /\ last.done

NoChange == ~last.raised /\ ~last.ret /\ fs = last.before

C5_Frame ==
    (EditDone /\ last.ret) =>
        /\ Outside(fs[DirA], LastName, last.kind) = Outside(LastFile, LastName, last.kind)
        /\ \A n \in DeclaredNames(LastFile.lines) \ {LastName} :
              /\ OwnDeps(fs[DirA].lines, n) = OwnDeps(LastFile.lines, n)
              /\ OwnKind(fs[DirA].lines, n) = OwnKind(LastFile.lines, n)

\* The part of C5 about the other rules alone.
C5_OtherRulesUntouched ==
    (EditDone /\ last.ret) =>
        \A n \in DeclaredNames(LastFile.lines) \ {LastName} :
            /\ OwnDeps(fs[DirA].lines, n) = OwnDeps(LastFile.lines, n)
            /\ OwnKind(fs[DirA].lines, n) = OwnKind(LastFile.lines, n)

\* C7: when no line of the file declares the target's name, the call does
\* not raise, returns False and leaves the file as it was, whatever the
\* replace-function and the kind override.
C7_UnknownTarget ==
    (EditDone /\ LastInA /\ ~Declares(LastFile.lines, LastName)) => NoChange

\* An undeclared target was edited, with a replace-function that adds a
\* dependency and a kind override, in a file whose rules have dependencies.
C7_Witness ==
    /\ EditDone
    /\ LastInA
    /\ ~Declares(LastFile.lines, LastName)
    /\ last.fn = UnionFn({TargetC})
    /\ last.kind = "android_library"
    /\ \E n \in DeclaredNames(LastFile.lines) : OwnDeps(LastFile.lines, n) = {TargetB}

(***************************************************************************)
(* find_missing_deps_from_output                                           *)
(***************************************************************************)
\* 'Try adding the following deps:'
TryAdding == <<84, 114, 121, 32, 97, 100, 100, 105, 110, 103, 32, 116, 104, 101, 32, 102, 111, 108, 108, 111, 119, 105, 110, 103, 32, 100, 101, 112, 115, 58>>

\* ' is missing deps:'
MissingDeps == <<32, 105, 115, 32, 109, 105, 115, 115, 105, 110, 103, 32, 100, 101, 112, 115, 58>>

RECURSIVE rstripText(_)
rstripText(s) ==
    IF s # <<>> /\ s[Len(s)] = Space THEN rstripText(SubSeq(s, 1, Len(s) - 1)) ELSE s

\* x.strip()
strip(s) == rstripText(lstrip(s, Space))

\* line.endswith(suffix)
endswith(s, suffix) ==
    Len(s) >= Len(suffix) /\ SubSeq(s, Len(s) - Len(suffix) + 1, Len(s)) = suffix

ParseStart == [in_try_adding |-> FALSE, in_missing_deps |-> FALSE, missing_deps |-> {}]

\* The body of the loop over the lines of the output.
ParseLine(st, raw) ==
    LET line == strip(raw) IN
    IF line = TryAdding THEN [st EXCEPT !.in_try_adding = TRUE]
    ELSE IF st.in_try_adding THEN
        IF line = <<>> THEN [st EXCEPT !.in_try_adding = FALSE]
        ELSE [st EXCEPT !.missing_deps = st.missing_deps \cup {line}]
    ELSE IF endswith(line, MissingDeps) THEN [st EXCEPT !.in_missing_deps = TRUE]
    ELSE IF st.in_missing_deps THEN
        IF DEP_DECLARATION(TextLine(line)) # {}
        THEN [st EXCEPT !.missing_deps = st.missing_deps \cup DEP_DECLARATION(TextLine(line))]
        ELSE [st EXCEPT !.in_missing_deps = FALSE]
    ELSE st

RECURSIVE ParseLines(_, _)
ParseLines(st, output) ==
    IF output = <<>> THEN st ELSE ParseLines(ParseLine(st, Head(output)), Tail(output))

\* find_missing_deps_from_output(buck_rule, output); output is the text
\* line by line (splitlines).
find_missing_deps_from_output(buck_rule, output) ==
    ParseLines(ParseStart, output).missing_deps \ {buck_rule}

(***************************************************************************)
(* The diagnostics parser on its own                                       *)
(***************************************************************************)
MaxDiagLines == 4

TargetA == <<47, 47, 97, 58, 97>>       \* "//a:a"
QuotedA == <<39, 47, 47, 97, 58, 97, 39, 44>>      \* "'//a:a',"
QuotedB == <<32, 32, 39, 47, 47, 98, 58, 98, 39, 44>>      \* "  '//b:b',"
HeaderA == TargetA \o MissingDeps               \* "//a:a is missing deps:"
BuildFailed == <<66, 85, 73, 76, 68, 32, 70, 65, 73, 76, 69, 68>>  \* "BUILD FAILED"

DiagLines == {TryAdding, <<>>, HeaderA, QuotedA, QuotedB, TargetA, TargetB, BuildFailed}

DiagTexts == UNION {[1..n -> DiagLines] : n \in 0..MaxDiagLines}

ParseInit ==
    /\ mode = "parse"
    /\ GenIdle
    /\ AuditIdle
    /\ ResolveIdle
    /\ FmtIdle
    /\ EditIdle
    /\ LoopIdle
    /\ p_rule = TargetA
    /\ p_output \in DiagTexts
    /\ p_result = [done |-> FALSE, deps |-> {}]

\* One call of find_missing_deps_from_output.
FindMissingDeps ==
    /\ mode = "parse"
    /\ ~p_result.done
    /\ p_result' = [done |-> TRUE, deps |-> find_missing_deps_from_output(p_rule, p_output)]
    /\ UNCHANGED <<mode, auditVars, genVars, resolveVars, fmtVars, editVars, p_rule, p_output, loopVars>>

ParseNext == FindMissingDeps

SpecParse == ParseInit /\ [][ParseNext]_vars

\* The diagnostic text read as the claim reads it.  Line i is listed after a
\* "Try adding" line when such a line precedes it with no blank line from
\* there up to i.
Stripped == [i \in 1..Len(p_output) |-> strip(p_output[i])]

InTryList(i) ==
    \E j \in 1..(i - 1) :
        /\ Stripped[j] = TryAdding
        /\ \A k \in (j + 1)..(i - 1) : Stripped[k] # <<>>

IsQuoted(i) == DEP_DECLARATION(TextLine(Stripped[i])) # {}

TryListed ==
    {Stripped[i] : i \in {k \in 1..Len(p_output) :
        InTryList(k) /\ Stripped[k] # <<>> /\ Stripped[k] # TryAdding}}

\* Line i is a quoted identifier following an "is missing deps:" line, with
\* nothing but quoted identifiers in between.
MissingListed ==
    UNION {DEP_DECLARATION(TextLine(Stripped[i])) : i \in {k \in 1..Len(p_output) :
        /\ ~InTryList(k)
        /\ Stripped[k] # TryAdding
        /\ \E j \in 1..(k - 1) :
              /\ endswith(Stripped[j], MissingDeps)
              /\ ~InTryList(j)
              /\ \A m \in (j + 1)..(k - 1) : IsQuoted(m)}}

\* C8: the parser returns exactly the identifiers listed after a "Try adding
\* the following deps:" line up to the next blank line, together with the
\* quoted identifiers that follow an "is missing deps:" line up to the first
\* line that is not a quoted identifier, the failing target itself removed.
C8_ParsesReportedDeps ==
    (mode = "parse" /\ p_result.done) =>
        p_result.deps = (TryListed \cup MissingListed) \ {p_rule}

\* The part of C8 about the failing target: it is never returned.
C8_NeverSelf ==
    (mode = "parse" /\ p_result.done) => p_rule \notin p_result.deps

(***************************************************************************)
(* The files generate_default_buck_files writes                            *)
(***************************************************************************)
INTERFACE_SUFFIX == <<45, 105, 110, 116, 101, 114, 102, 97, 99, 101, 115>>     \* '-interfaces'

\* INTERFACE_FILES_TEMPLATE.format(...)
INTERFACE_FILES_TEMPLATE ==
    <<OtherLine("INTERFACE_FILES = ["), OtherLine("  '{file}'"), OtherLine("]"), BlankLine>>

FormattedDeps(deps) == format_deps_for_buck_file(CHOOSE o \in Orders(deps) : TRUE)

\* The BUCK file of a directory with an interface rule and a main rule.
SplitBuckFile(base, itype, ideps, mtype, mdeps) ==
    Written(INTERFACE_FILES_TEMPLATE
            \o BUCK_FILE_TEMPLATE(itype, base \o INTERFACE_SUFFIX, "  srcs = INTERFACE_FILES,",
                                  FormattedDeps(ideps))
            \o BUCK_FILE_TEMPLATE(mtype, base,
                                  "  srcs = glob(['*.java'], excludes=INTERFACE_FILES),",
                                  FormattedDeps(mdeps)))

\* The BUCK file of a directory with a main rule alone.
PlainBuckFile(base, mtype, mdeps) ==
    Written(BUCK_FILE_TEMPLATE(mtype, base, "  srcs = glob(['*.java']),", FormattedDeps(mdeps)))

(***************************************************************************)
(* add_missing_deps and add_missing_deps_pass                              *)
(***************************************************************************)
MaxPasses == 8

DirB == <<98>>                                      \* "b"
RuleAI == Target(DirA, DirA \o INTERFACE_SUFFIX)    \* "//a:a-interfaces"
RuleA == Target(DirA, DirA)                         \* "//a:a"
RuleB == Target(DirB, DirB)                         \* "//b:b"
LoopIds == {RuleAI, RuleA, RuleB}

RuleDir(rule) == split(lstrip(rule, Slash), Colon)[1]
RuleName(rule) == split(rule, Colon)[2]

\* The dependencies a target's declaration holds on disk.
RuleDeps(fsys, rule) ==
    IF RuleDir(rule) \in DOMAIN fsys
    THEN OwnDeps(fsys[RuleDir(rule)].lines, RuleName(rule)) ELSE {}

RuleKind(fsys, rule) ==
    IF RuleDir(rule) \in DOMAIN fsys
    THEN OwnKind(fsys[RuleDir(rule)].lines, RuleName(rule)) ELSE {}

Range(f) == {f[i] : i \in DOMAIN f}

\* What the build tool may print for a failing target: text it gives no
\* list in, a "Try adding" list, or an "is missing deps:" list.
QuotedLine(id) == <<Space, Space, Apos>> \o id \o <<Apos, Comma>>

TryText(S) ==
    LET o == CHOOSE q \in Orders(S) : TRUE
    IN <<BuildFailed, TryAdding>> \o o \o << <<>> >>

MissingText(rule, S) ==
    LET o == CHOOSE q \in Orders(S) : TRUE
    IN <<rule \o MissingDeps>> \o [i \in 1..Len(o) |-> QuotedLine(o[i])]

\* The texts that list the identifiers S for a failing target.
DiagsListing(rule, S) == {TryText(S), MissingText(rule, S)}

\* The generated files the loop starts from: directory a split into an
\* interface rule and a main rule, or directories a and b with a main rule
\* each.  A rule is platform-flavoured when the PlatformLibrarySet holds it.
KindFor(rule, libs) == IF rule \in libs THEN "android_library" ELSE "java_library"

NoBuild == [failed |-> FALSE, err |-> <<>>]

LoopStart(rules, files, libs, honest, needs) ==
    /\ buck_rules = rules
    /\ fs = files
    /\ android_libraries = libs
    /\ tool = [honest |-> honest, needs |-> needs]
    /\ pc = "while"
    /\ settled = FALSE
    /\ pass_count = 1
    /\ idx = 0
    /\ files_changed = 0
    /\ build = NoBuild
    /\ writes = 0
    /\ added = [r \in Range(rules) |-> [d \in LoopIds |-> 0]]
    /\ last = [done |-> FALSE]

\* What the tool will suggest for each target until it is present.
NeedsFor(rules, honest) ==
    {n \in [rules -> SUBSET LoopIds] :
        IF honest THEN \A r \in rules : r \notin n[r] ELSE \A r \in rules : n[r] = {}}

LoopStarts(honest) ==
    /\ mode = "loop"
    /\ GenIdle
    /\ AuditIdle
    /\ ResolveIdle
    /\ FmtIdle
    /\ ParseIdle
    /\ \E libs \in SUBSET LoopIds :
          \/ \E needs \in NeedsFor({RuleAI, RuleA}, honest) :
                LoopStart(<<RuleAI, RuleA>>,
                          DirA :> SplitBuckFile(DirA, KindFor(RuleAI, libs), {RuleB},
                                                KindFor(RuleA, libs), {}),
                          libs, honest, needs)
          \/ \E needs \in NeedsFor({RuleA, RuleB}, honest) :
                LoopStart(<<RuleA, RuleB>>,
                          (DirA :> PlainBuckFile(DirA, KindFor(RuleA, libs), {}))
                             @@ (DirB :> PlainBuckFile(DirB, KindFor(RuleB, libs), {RuleAI})),
                          libs, honest, needs)

LoopInit == LoopStarts(FALSE)

\* The mutant of update_deps that returns the reported dependencies alone.
update_deps_replace(missing_deps) == ConstFn(missing_deps)

\* update_deps: x.union(missing_deps)
update_deps(missing_deps) == UnionFn(missing_deps)

\* The mutant of CountChange that counts every failing target.
CountChangeAlways(count, changed) == count + 1

\* if modify_buck_rule(...): files_changed += 1
CountChange(count, changed) == IF changed THEN count + 1 ELSE count

\* settled = files_changed == 0
IsSettled(count) == count = 0

\* while not settled: a pass begins.
StartPass ==
    /\ mode = "loop"
    /\ pc = "while"
    /\ ~settled
    /\ pass_count <= MaxPasses
    /\ files_changed' = 0
    /\ idx' = 1
    /\ writes' = 0
    /\ pc' = "for"
    /\ UNCHANGED <<mode, auditVars, genVars, resolveVars, fmtVars, editVars, parseVars, buck_rules, android_libraries,
                   pass_count, settled, build, tool, added>>

\* buck build <rule>: the tool runs and its return code and stderr are read
\* (they are dropped again once the target has been handled: nothing reads
\* them before the next build overwrites them).
\* A tool assumed honest fails exactly when a needed dependency is absent
\* from the declaration, and then reports at least one such dependency.
Build ==
    /\ mode = "loop"
    /\ pc = "for"
    /\ idx <= Len(buck_rules)
    /\ LET rule == buck_rules[idx]
           absent == tool.needs[rule] \ RuleDeps(fs, rule)
       IN \/ /\ tool.honest => absent = {}
             /\ build' = NoBuild
          \/ /\ ~tool.honest
             /\ build' = [failed |-> TRUE, err |-> <<BuildFailed>>]
          \/ \E S \in (SUBSET LoopIds) \ {{}} : \E err \in DiagsListing(rule, S) :
                /\ tool.honest => S \cap absent # {}
                /\ build' = [failed |-> TRUE, err |-> err]
    /\ pc' = "built"
    /\ UNCHANGED <<mode, auditVars, genVars, resolveVars, fmtVars, editVars, parseVars, buck_rules, android_libraries,
                   idx, files_changed, pass_count, settled, tool, writes, added>>

\* returncode == 0: nothing is done for the target.
BuildPassed ==
    /\ mode = "loop"
    /\ pc = "built"
    /\ ~build.failed
    /\ idx' = idx + 1
    /\ pc' = "for"
    /\ build' = NoBuild
    /\ UNCHANGED <<mode, auditVars, genVars, resolveVars, fmtVars, editVars, parseVars, buck_rules, android_libraries,
                   files_changed, pass_count, settled, tool, writes, added>>

\* returncode != 0: the reported dependencies are merged into the target's
\* declaration and the platform kind is propagated.
Repair ==
    /\ mode = "loop"
    /\ pc = "built"
    /\ build.failed
    /\ LET rule == buck_rules[idx]
           missing_deps == find_missing_deps_from_output(rule, build.err)
           new_rule_type == IF rule \in android_libraries THEN "android_library" ELSE NoKind
           r == modify_buck_rule(fs, rule, update_deps(missing_deps), new_rule_type)
           existing_deps == UNION r.passed
       IN /\ fs' = r.fs
          /\ files_changed' = CountChange(files_changed, r.ret)
          /\ writes' = IF r.fs # fs THEN writes + 1 ELSE writes
          /\ android_libraries' =
                IF (missing_deps \cup existing_deps) \cap android_libraries # {}
                THEN android_libraries \cup {rule} ELSE android_libraries
          /\ added' = [t \in DOMAIN added |->
                LET new == RuleDeps(r.fs, t) \ RuleDeps(fs, t)
                IN [d \in LoopIds |-> IF d \in new THEN Min(added[t][d] + 1, 2)
                                                  ELSE added[t][d]]]
          /\ pc' = IF r.raised THEN "raised" ELSE "for"
          /\ idx' = IF r.raised THEN idx ELSE idx + 1
    /\ build' = NoBuild
    /\ UNCHANGED <<mode, auditVars, genVars, resolveVars, fmtVars, last, parseVars, buck_rules, pass_count, settled, tool>>

\* The pass returns its count; the loop records whether it settled.
EndPass ==
    /\ mode = "loop"
    /\ pc = "for"
    /\ idx > Len(buck_rules)
    /\ settled' = IsSettled(files_changed)
    /\ pass_count' = pass_count + 1
    /\ pc' = "while"
    /\ UNCHANGED <<mode, auditVars, genVars, resolveVars, fmtVars, editVars, parseVars, buck_rules, android_libraries,
                   idx, files_changed, build, tool, writes, added>>

\* while not settled: the loop ends.
Finish ==
    /\ mode = "loop"
    /\ pc = "while"
    /\ settled
    /\ pc' = "done"
    /\ UNCHANGED <<mode, auditVars, genVars, resolveVars, fmtVars, editVars, parseVars, buck_rules, android_libraries,
                   idx, files_changed, pass_count, settled, build, tool, writes, added>>

LoopNext == StartPass \/ Build \/ BuildPassed \/ Repair \/ EndPass \/ Finish

SpecLoop == LoopInit /\ [][LoopNext]_vars

\* The loop with a build tool that reports a dependency not yet present on
\* every failure; the program runs on until it returns.
ConvInit == LoopStarts(TRUE)

\* The positions from which the loop has a step to take.
Running ==
    /\ mode = "loop"
    /\ \/ pc = "while" /\ (settled \/ pass_count <= MaxPasses)
       \/ pc = "for"
       \/ pc = "built"

\* Every step of the loop moves pc, and a step is possible exactly when
\* Running holds, so this is a step of LoopNext seen through pc alone.
Advance == Running /\ pc' \in {"while", "for", "built", "raised", "done"}

\* The interpreter never stops between two statements: weak fairness of the
\* loop's steps.
SpecConv == ConvInit /\ [][LoopNext]_vars /\ WF_pc(Advance)

\* The dependencies the generated declarations start with.
InitialDeps(rule) ==
    IF rule = RuleAI /\ Len(buck_rules) > 0 /\ buck_rules[1] = RuleAI THEN {RuleB}
    ELSE IF rule = RuleB THEN {RuleAI}
    ELSE {}

LoopRules == Range(buck_rules)

\* A dependency has been added to a declaration once if the declaration
\* holds it and did not start with it, and never otherwise.
AddedExactlyOnce ==
    \A r \in LoopRules : \A d \in LoopIds :
        added[r][d] = IF d \in RuleDeps(fs, r) \ InitialDeps(r) THEN 1 ELSE 0

C2_OnlyAdded ==
    [][mode = "loop" =>
        /\ \A r \in LoopRules : RuleDeps(fs, r) \subseteq RuleDeps(fs', r)
        /\ (pc = "built" /\ build.failed /\ pc' = "for") =>
              RuleDeps(fs', buck_rules[idx])
                = RuleDeps(fs, buck_rules[idx])
                    \cup find_missing_deps_from_output(buck_rules[idx], build.err)]_vars

\* The main rule, generated without dependencies, has gained two in two
\* repairs, and the other rule has kept the one it was generated with.
C2_Witness ==
    /\ mode = "loop"
    /\ pc = "for"
    /\ pass_count >= 2
    /\ RuleDeps(fs, RuleA) = {RuleAI, RuleB}
    /\ added[RuleA][RuleAI] = 1
    /\ added[RuleA][RuleB] = 1
    /\ \E r \in LoopRules \ {RuleA} : InitialDeps(r) # {} /\ InitialDeps(r) \subseteq RuleDeps(fs, r)

\* C3: the loop runs a first pass, runs another pass exactly when the pass
\* before it counted a modification, returns after the first pass that
\* counted none, and a pass counts exactly the files written during it.
C3_PassesUntilSettled ==
    /\ [](mode = "loop" => files_changed = writes)
    /\ [](mode = "loop" /\ pc = "done" => pass_count >= 2 /\ files_changed = 0)
    /\ [][mode = "loop" =>
            /\ (pc = "for" /\ pc' = "while") => (settled' <=> files_changed = 0)
            /\ (pc = "while" /\ settled) => pc' = "done"
            /\ (pc = "while" /\ ~settled) => pc' = "for"]_vars

\* The loop has returned after a pass that wrote two files and a pass that
\* wrote none.
C3_Witness ==
    /\ mode = "loop"
    /\ pc = "done"
    /\ pass_count = 3
    /\ files_changed = 0
    /\ \E r \in LoopRules : \E d \in LoopIds : added[r][d] = 1

(***************************************************************************)
(* Paths and source lines                                                  *)
(***************************************************************************)
Dot == 46
Semicolon == 59
At == 64

\* s.startswith(prefix)
startswith(s, prefix) == Len(s) >= Len(prefix) /\ SubSeq(s, 1, Len(prefix)) = prefix

\* s.replace('.', '/')
replace(s, old, new) == [i \in 1..Len(s) |-> IF s[i] = old THEN new ELSE s[i]]

\* s.rstrip('/')
RECURSIVE rstripChar(_, _)
rstripChar(s, c) ==
    IF s # <<>> /\ s[Len(s)] = c THEN rstripChar(SubSeq(s, 1, Len(s) - 1), c) ELSE s

\* The position of the last '/' of p, 0 when there is none.
LastSlash(p) ==
    IF \E i \in 1..Len(p) : p[i] = Slash
    THEN CHOOSE i \in 1..Len(p) : p[i] = Slash /\ \A j \in (i + 1)..Len(p) : p[j] # Slash
    ELSE 0

\* posixpath.join(a, b)
path_join(a, b) ==
    IF b # <<>> /\ Head(b) = Slash THEN b
    ELSE IF a = <<>> \/ a[Len(a)] = Slash THEN a \o b
    ELSE a \o <<Slash>> \o b

\* posixpath.dirname(p)
path_dirname(p) ==
    LET head == SubSeq(p, 1, LastSlash(p))
    IN IF head # <<>> /\ rstripChar(head, Slash) # <<>> THEN rstripChar(head, Slash) ELSE head

\* posixpath.basename(p)
path_basename(p) == SubSeq(p, LastSlash(p) + 1, Len(p))

\* The components of a path after normalisation: empty and '.' components
\* dropped, '..' taking back the component before it.
RECURSIVE Normal(_, _)
Normal(comps, acc) ==
    IF comps = <<>> THEN acc
    ELSE LET c == Head(comps) IN
         IF c = <<>> \/ c = <<Dot>> THEN Normal(Tail(comps), acc)
         ELSE IF c = <<Dot, Dot>> THEN
             Normal(Tail(comps), IF acc = <<>> THEN acc ELSE SubSeq(acc, 1, Len(acc) - 1))
         ELSE Normal(Tail(comps), Append(acc, c))

\* The working directory of the run.
Cwd == <<47, 119>>      \* '/w'

\* posixpath.abspath(p), as the sequence of its components
path_abspath(p) == Normal(split(path_join(Cwd, p), Slash), <<>>)

\* posixpath.exists(p) in the project's files
path_exists(p) == \E f \in DOMAIN tree : path_abspath(f) = path_abspath(p)

\* The file at p
FileAt(p) == tree[CHOOSE f \in DOMAIN tree : path_abspath(f) = path_abspath(p)]

ImportPrefix == <<105, 109, 112, 111, 114, 116, 32>>    \* 'import '
JavaSuffix == <<46, 106, 97, 118, 97>>                  \* '.java'
AndroidPrefix == <<97, 110, 100, 114, 111, 105, 100>>   \* 'android'
ComAndroidPrefix == <<99, 111, 109, 46, 97, 110, 100, 114, 111, 105, 100>>    \* 'com.android'
Public == <<112, 117, 98, 108, 105, 99>>                \* 'public'
Interface == <<105, 110, 116, 101, 114, 102, 97, 99, 101>>    \* 'interface'

\* JAVA_IMPORT.match(line): the set holding group 1, empty without a match.
\* The line is read with its line terminator, which $ steps over.
JAVA_IMPORT(line) ==
    IF /\ Len(line) >= Len(ImportPrefix) + 1
       /\ startswith(line, ImportPrefix)
       /\ line[Len(line)] = Semicolon
    THEN {SubSeq(line, Len(ImportPrefix) + 1, Len(line) - 1)}
    ELSE {}

\* INTERFACE_DECLARATION.match(line): 'public', white space, an optional '@',
\* 'interface', white space (the line terminator counts).
INTERFACE_DECLARATION(line) ==
    /\ startswith(line, Public)
    /\ LET rest == SubSeq(line, Len(Public) + 1, Len(line))
           word == lstrip(rest, Space)
           bare == IF word # <<>> /\ Head(word) = At THEN Tail(word) ELSE word
       IN /\ Len(word) < Len(rest)
          /\ startswith(bare, Interface)
          /\ Len(bare) > Len(Interface) => bare[Len(Interface) + 1] = Space

\* The mutant of is_interface_file that finds no interface.
never_interface_file(file) == FALSE

\* is_interface_file(file)
is_interface_file(file) ==
    IF ~split_interfaces THEN FALSE
    ELSE \E i \in 1..Len(FileAt(file)) : INTERFACE_DECLARATION(FileAt(file)[i])

(***************************************************************************)
(* get_deps_for_files                                                      *)
(***************************************************************************)
RECURSIVE LocalScan(_, _)

\* The mutant of IndexFirst that lets a local source file win over the index.
IndexLast(needed_class, java_file) ==
    needed_class \in DOMAIN third_party_map /\ ~LocalScan(src_roots, java_file).found

\* if needed_class in third_party_map: the index is asked before any file is
\* looked for.
IndexFirst(needed_class, java_file) == needed_class \in DOMAIN third_party_map

\* The mutant of NotSelf that lets every local target through.
SelfAllowed(target_basename, root) == TRUE

\* path.abspath(target_basename) != path.abspath(root)
NotSelf(target_basename, root) == path_abspath(target_basename) # path_abspath(root)

\* for src_root in src_roots: ... break -- the first root holding the file
\* decides; rule_name is what the loop leaves in the variable of that name.
LocalScan(roots, java_file) ==
    IF roots = <<>> THEN [found |-> FALSE, target_basename |-> <<>>, rule_name |-> <<>>]
    ELSE LET src_root == lstrip(Head(roots), Slash)
             java_file_full_path == path_join(src_root, java_file)
         IN IF path_exists(java_file_full_path) THEN
                [found |-> TRUE,
                 target_basename |-> path_join(src_root, path_dirname(java_file)),
                 rule_name |-> path_basename(path_dirname(java_file))
                                 \o (IF is_interface_file(java_file_full_path)
                                     THEN INTERFACE_SUFFIX ELSE <<>>)]
            ELSE LocalScan(Tail(roots), java_file)

\* The body of the loop over a file's lines, on the locals
\* [deps, has_android_deps, rule_name].
ReadSourceLine(st, line, root) ==
    IF JAVA_IMPORT(line) = {} THEN st
    ELSE LET needed_class == CHOOSE c \in JAVA_IMPORT(line) : TRUE
             android == \/ st.has_android_deps
                        \/ startswith(needed_class, AndroidPrefix)
                        \/ startswith(needed_class, ComAndroidPrefix)
             java_file == replace(needed_class, Dot, Slash) \o JavaSuffix
         IN IF IndexFirst(needed_class, java_file) THEN
                [st EXCEPT !.has_android_deps = android,
                           !.deps = st.deps \cup {third_party_map[needed_class]}]
            ELSE LET hit == LocalScan(src_roots, java_file)
                     target == Target(hit.target_basename, hit.rule_name)
                 IN IF ~hit.found THEN [st EXCEPT !.has_android_deps = android]
                    ELSE IF NotSelf(hit.target_basename, root) THEN
                        [deps |-> st.deps \cup {target},
                         has_android_deps |-> android \/ target \in android_libraries,
                         rule_name |-> hit.rule_name]
                    ELSE [st EXCEPT !.has_android_deps = android,
                                    !.rule_name = hit.rule_name]

\* The lines of the files whose name ends in '.java', in iteration order.
RECURSIVE SourceLines(_, _)
SourceLines(root, files) ==
    IF files = <<>> THEN <<>>
    ELSE (IF endswith(Head(files), JavaSuffix) THEN FileAt(path_join(root, Head(files)))
          ELSE <<>>)
         \o SourceLines(root, Tail(files))

(***************************************************************************)
(* The resolver on a small project                                         *)
(***************************************************************************)
MaxImports == 2

RootSrc == <<47, 115, 114, 99>>             \* '/src'
RootGen == <<47, 103, 101, 110>>            \* '/gen'
RootTop == <<47>>                           \* '/'
DirSrcA == <<115, 114, 99, 47, 97>>         \* 'src/a'
FileA == <<65, 46, 106, 97, 118, 97>>       \* 'A.java'
FileI == <<73, 46, 106, 97, 118, 97>>       \* 'I.java'
FileN == <<78, 46, 116, 120, 116>>          \* 'N.txt'
PathSrcBaz == <<115, 114, 99, 47, 98, 47, 66, 97, 122, 46, 106, 97, 118, 97>>    \* 'src/b/Baz.java'
PathGenBaz == <<103, 101, 110, 47, 98, 47, 66, 97, 122, 46, 106, 97, 118, 97>>   \* 'gen/b/Baz.java'
PathTopBaz == <<98, 47, 66, 97, 122, 46, 106, 97, 118, 97>>    \* 'b/Baz.java'
PathLibBuck == <<116, 104, 105, 114, 100, 45, 112, 97, 114, 116, 121, 47, 66, 85, 67, 75>>    \* 'third-party/BUCK'
PathAppBuck == <<97, 112, 112, 47, 66, 85, 67, 75>>    \* 'app/BUCK'
ClassBaz == <<98, 46, 66, 97, 122>>         \* 'b.Baz'
ClassI == <<97, 46, 73>>                    \* 'a.I'
ClassAndroidX == <<97, 110, 100, 114, 111, 105, 100, 46, 88>>   \* 'android.X'
ClassLib == <<99, 111, 109, 46, 120, 46, 76, 105, 98>>          \* 'com.x.Lib'
PackageLine == <<112, 97, 99, 107, 97, 103, 101, 32, 97, 59>>   \* 'package a;'
ClassDecl == <<112, 117, 98, 108, 105, 99, 32, 99, 108, 97, 115, 115, 32, 67, 32, 123>>    \* 'public class C {'
InterfaceDecl == <<112, 117, 98, 108, 105, 99, 32, 105, 110, 116, 101, 114, 102, 97, 99, 101, 32, 67, 32, 123>>    \* 'public interface C {'
TargetLib == <<47, 47, 116, 104, 105, 114, 100, 45, 112, 97, 114, 116, 121, 58, 108, 105, 98>>    \* '//third-party:lib'
TargetRes == <<47, 47, 97, 112, 112, 58, 114, 101, 115>>        \* '//app:res'
TargetGenB == <<47, 47, 103, 101, 110, 47, 98, 58, 98>>         \* '//gen/b:b'

\* 'import <class>;'
ImportLine(class) == ImportPrefix \o class \o <<Semicolon>>

SourceLineChoices ==
    {ImportLine(ClassBaz), ImportLine(ClassI), ImportLine(ClassAndroidX),
     ImportLine(ClassLib), PackageLine}

\* The Class Index as create_third_party_map may leave it: its targets are
\* declared in directories that have their BUCK file already.
ResolveIndexes ==
    {[c \in {} |-> TargetLib],
     [c \in {ClassBaz, ClassLib} |-> TargetLib],
     [c \in {ClassI, ClassAndroidX} |-> TargetRes]}

\* The project's files: the directory analysed holds A.java, the interface
\* I.java and N.txt; Baz.java exists under both roots, an interface under
\* src and a class under gen.
ProjectTree(a_lines) ==
    (path_join(DirSrcA, FileA) :> (a_lines \o <<ClassDecl>>))
      @@ (path_join(DirSrcA, FileI) :> <<ImportLine(ClassBaz), InterfaceDecl>>)
      @@ (path_join(DirSrcA, FileN) :> <<ImportLine(ClassLib)>>)
      @@ (PathSrcBaz :> <<InterfaceDecl>>)
      @@ (PathGenBaz :> <<ClassDecl>>)
      @@ (PathTopBaz :> <<ClassDecl>>)
      @@ (PathLibBuck :> <<>>)
      @@ (PathAppBuck :> <<>>)

ResolveInit ==
    /\ mode = "resolve"
    /\ GenIdle
    /\ AuditIdle
    /\ FmtIdle
    /\ EditIdle
    /\ ParseIdle
    /\ LoopQuiet
    /\ android_libraries \in {{}, {TargetRes, TargetGenB}}
    /\ src_roots \in {<<RootSrc>>, <<RootGen, RootSrc>>, <<RootTop, RootSrc>>}
    /\ third_party_map \in ResolveIndexes
    /\ \E a_lines \in UNION {[1..n -> SourceLineChoices] : n \in 0..MaxImports} :
          tree = ProjectTree(a_lines)
    /\ split_interfaces \in BOOLEAN
    /\ g_root = DirSrcA
    /\ g_files \in {<<FileA, FileN>>, <<FileA, FileI>>, <<FileI, FileA>>}
    /\ g_rule_name = Target(DirSrcA, path_basename(DirSrcA))     \* main_buck_rule, '//src/a:a'
    /\ g_lines = <<>>
    /\ g_deps = {}
    /\ g_has_android_deps = FALSE
    /\ g_pc = "call"

\* generate_default_buck_files calls get_deps_for_files for a directory
\* without a BUCK file; deps = set(), has_android_deps = False.
GetDepsCall ==
    /\ mode = "resolve"
    /\ g_pc = "call"
    /\ ~path_exists(path_join(g_root, <<66, 85, 67, 75>>))          \* 'BUCK' not in files
    /\ g_lines' = SourceLines(g_root, g_files)
    /\ g_deps' = {}
    /\ g_has_android_deps' = FALSE
    /\ g_pc' = "lines"
    /\ UNCHANGED <<mode, auditVars, genVars, fmtVars, editVars, parseVars, loopVars, src_roots, third_party_map,
                   tree, split_interfaces, g_root, g_files, g_rule_name>>

\* One line of a source file is read.
ReadLine ==
    /\ mode = "resolve"
    /\ g_pc = "lines"
    /\ g_lines # <<>>
    /\ LET st == ReadSourceLine([deps |-> g_deps, has_android_deps |-> g_has_android_deps,
                                 rule_name |-> g_rule_name],
                                Head(g_lines), g_root)
       IN /\ g_deps' = st.deps
          /\ g_has_android_deps' = st.has_android_deps
          /\ g_rule_name' = st.rule_name
    /\ g_lines' = Tail(g_lines)
    /\ UNCHANGED <<mode, auditVars, genVars, fmtVars, editVars, parseVars, loopVars, src_roots, third_party_map,
                   tree, split_interfaces, g_root, g_files, g_pc>>

\* if has_android_deps: android_libraries.add(rule_name); return
GetDepsReturn ==
    /\ mode = "resolve"
    /\ g_pc = "lines"
    /\ g_lines = <<>>
    /\ android_libraries' = IF g_has_android_deps THEN android_libraries \cup {g_rule_name}
                            ELSE android_libraries
    /\ g_pc' = "returned"
    /\ UNCHANGED <<mode, auditVars, genVars, fmtVars, editVars, parseVars, buck_rules, pc, idx, files_changed,
                   pass_count, settled, build, tool, writes, added, src_roots,
                   third_party_map, tree, split_interfaces, g_root, g_files, g_rule_name,
                   g_lines, g_deps, g_has_android_deps>>

ResolveNext == GetDepsCall \/ ReadLine \/ GetDepsReturn

SpecResolve == ResolveInit /\ [][ResolveNext]_vars

\* The class names the analysed source files import.
Imported ==
    UNION {JAVA_IMPORT(l) : l \in Range(SourceLines(g_root, g_files))}

\* The local-directory targets a class name can stand for: the main and the
\* interface rule of the directory of a same-named source file under any
\* recognized root.
LocalTargets(class) ==
    LET file == replace(class, Dot, Slash) \o JavaSuffix
    IN {Target(path_join(lstrip(src_roots[i], Slash), path_dirname(file)),
               path_basename(path_dirname(file)) \o sfx) :
          i \in {j \in 1..Len(src_roots) :
                    path_exists(path_join(lstrip(src_roots[j], Slash), file))},
          sfx \in {<<>>, INTERFACE_SUFFIX}}

\* C9: when get_deps_for_files has returned, the owning target of every
\* imported class that is in the Class Index is among the dependencies, and
\* a local-directory target of such a class is among them only if an import
\* outside the index resolves to it.
C9_IndexPrecedesLocal ==
    (mode = "resolve" /\ g_pc = "returned") =>
        \A c \in Imported \cap DOMAIN third_party_map :
            /\ third_party_map[c] \in g_deps
            /\ \A t \in LocalTargets(c) \cap g_deps :
                  \E c2 \in Imported \ DOMAIN third_party_map : t \in LocalTargets(c2)

\* b.Baz is imported, is in the index and has a source file under both
\* roots; the call has returned the index's target.
C9_Witness ==
    /\ mode = "resolve"
    /\ g_pc = "returned"
    /\ ClassBaz \in Imported \cap DOMAIN third_party_map
    /\ LocalTargets(ClassBaz) # {}
    /\ Len(src_roots) = 2
    /\ g_deps = {TargetLib}

\* C10: no dependency get_deps_for_files collects is a target of the
\* directory analysed, main or interface-suffixed or other.
C10_NoSelfDependency ==
    mode = "resolve" =>
        \A t \in g_deps : path_abspath(RuleDir(t)) # path_abspath(g_root)

\* a.I is imported, is not in the index and is a source file of the
\* directory analysed, declaring an interface, interfaces being split; the
\* call has returned.
C10_Witness ==
    /\ mode = "resolve"
    /\ g_pc = "returned"
    /\ ClassI \in Imported \ DOMAIN third_party_map
    /\ split_interfaces
    /\ LocalTargets(ClassI) # {}
    /\ g_rule_name = path_basename(g_root) \o INTERFACE_SUFFIX

\* The first recognized root under which b/Baz.java exists, '/' stripped.
BazRoot ==
    LET holds(i) == path_join(lstrip(src_roots[i], Slash), PathTopBaz) \in DOMAIN tree
        i == CHOOSE j \in 1..Len(src_roots) : holds(j) /\ \A k \in 1..(j - 1) : ~holds(k)
    IN lstrip(src_roots[i], Slash)

\* Whether the Baz.java under that root declares an interface.
BazDeclaresInterface == InterfaceDecl \in Range(tree[path_join(BazRoot, PathTopBaz)])

C12_PlatformPropagation ==
    /\ [][(/\ mode = "loop"
           /\ pc = "built"
           /\ build.failed
           /\ pc' = "for"
           /\ (RuleDeps(fs, buck_rules[idx])
                 \cup find_missing_deps_from_output(buck_rules[idx], build.err))
                \cap android_libraries # {})
          => /\ RuleKind(fs', buck_rules[idx]) = {"android_library"}
             /\ buck_rules[idx] \in android_libraries']_vars
    /\ [](mode = "loop" /\ pc = "done" =>
            \A r \in LoopRules :
                ((\E d \in LoopIds : added[r][d] > 0)
                    /\ RuleDeps(fs, r) \cap android_libraries # {})
                => RuleKind(fs, r) = {"android_library"})

\* The identifier passed to get_deps_for_files for the rule analysed.
PassedRule == Target(g_root, path_basename(g_root))

\* C13: when get_deps_for_files returns, the PlatformLibrarySet has only
\* grown, by nothing but the identifier passed in for the rule, and if a
\* file analysed imports a name under android or com.android the flag
\* returned is true and that identifier is in the set.
C13_PlatformSeeding ==
    [][(mode = "resolve" /\ g_pc = "lines" /\ g_pc' = "returned")
       => /\ android_libraries \subseteq android_libraries'
          /\ android_libraries' \ android_libraries \subseteq {PassedRule}
          /\ (\E c \in Imported : \/ startswith(c, AndroidPrefix)
                                  \/ startswith(c, ComAndroidPrefix))
                => g_has_android_deps /\ PassedRule \in android_libraries']_vars

(***************************************************************************)
(* generate_default_buck_files                                             *)
(***************************************************************************)
\* get_interface_files(root, files): the loop stops at the first file found
\* to declare an interface.
RECURSIVE get_interface_files(_, _)
get_interface_files(root, files) ==
    IF files = <<>> THEN {}
    ELSE IF endswith(Head(files), JavaSuffix) /\ is_interface_file(path_join(root, Head(files)))
         THEN {Head(files)}
         ELSE get_interface_files(root, Tail(files))

\* get_deps_for_files as one call: the locals after the last line is read.
RECURSIVE ReadSourceLines(_, _, _)
ReadSourceLines(st, lines, root) ==
    IF lines = <<>> THEN st
    ELSE ReadSourceLines(ReadSourceLine(st, Head(lines), root), Tail(lines), root)

get_deps_for_files(root, files, rule_name) ==
    ReadSourceLines([deps |-> {}, has_android_deps |-> FALSE, rule_name |-> rule_name],
                    SourceLines(root, files), root)

\* path.relpath(root), from the working directory
RECURSIVE JoinPath(_)
JoinPath(comps) ==
    IF comps = <<>> THEN <<>>
    ELSE IF Len(comps) = 1 THEN comps[1]
    ELSE comps[1] \o <<Slash>> \o JoinPath(Tail(comps))

path_relpath(p) ==
    LET here == path_abspath(<<>>)
        there == path_abspath(p)
    IN IF Len(there) > Len(here) /\ SubSeq(there, 1, Len(here)) = here
       THEN JoinPath(SubSeq(there, Len(here) + 1, Len(there)))
       ELSE <<Dot>>

\* 'BUCK' not in files and any(x.endswith('.java') for x in files)
NeedsBuckFile(files) ==
    /\ \A i \in 1..Len(files) : files[i] # <<66, 85, 67, 75>>
    /\ \E i \in 1..Len(files) : endswith(files[i], JavaSuffix)

\* The walk yields a directory that has a BUCK file or no source file.
WalkSkip ==
    /\ mode = "generate"
    /\ gen_pc = "walk"
    /\ gen_walk # <<>>
    /\ ~NeedsBuckFile(Head(gen_walk).files)
    /\ gen_walk' = Tail(gen_walk)
    /\ UNCHANGED <<mode, auditVars, fmtVars, editVars, parseVars, loopVars, resolveVars, gen_pc,
                   interface_files>>

\* The walk yields a directory to generate: its interface subset is
\* computed, the BUCK file is opened, and the interface rule, if any, is
\* written and recorded.
EmitInterfaceRule ==
    /\ mode = "generate"
    /\ gen_pc = "walk"
    /\ gen_walk # <<>>
    /\ NeedsBuckFile(Head(gen_walk).files)
    /\ LET root == Head(gen_walk).root
           subset == get_interface_files(root, Head(gen_walk).files)
           interface_rule == path_basename(root) \o INTERFACE_SUFFIX
           interface_buck_rule ==
               Target(path_relpath(root),
                      path_basename(root)
                        \o <<45, 105, 110, 116, 101, 114, 102, 97, 99, 101, 115>>)
           got == get_deps_for_files(root, CHOOSE o \in Orders(subset) : TRUE,
                                     interface_buck_rule)
           interface_library_type ==
               IF got.has_android_deps THEN "android_library" ELSE "java_library"
       IN /\ interface_files' = (root :> subset) @@ interface_files
          /\ IF subset = {} THEN
                /\ fs' = (root :> Written(<<>>)) @@ fs
                /\ UNCHANGED <<buck_rules, android_libraries>>
             ELSE
                /\ fs' = (root :> Written(INTERFACE_FILES_TEMPLATE
                                            \o BUCK_FILE_TEMPLATE(interface_library_type,
                                                   interface_rule, "  srcs = INTERFACE_FILES,",
                                                   format_deps_for_buck_file(
                                                       CHOOSE o \in Orders(got.deps) : TRUE))))
                            @@ fs
                /\ buck_rules' = Append(buck_rules, interface_buck_rule)
                /\ android_libraries' =
                      IF got.has_android_deps THEN android_libraries \cup {got.rule_name}
                      ELSE android_libraries
    /\ gen_pc' = "main"
    /\ UNCHANGED <<mode, auditVars, fmtVars, last, parseVars, pc, idx, files_changed, pass_count, settled,
                   build, tool, writes, added, resolveVars, gen_walk>>

\* The main rule of the directory is written and recorded; the walk goes on.
EmitMainRule ==
    /\ mode = "generate"
    /\ gen_pc = "main"
    /\ LET root == Head(gen_walk).root
           files == Head(gen_walk).files
           main_buck_rule == Target(path_relpath(root), path_basename(root))
           main_rule_srcs == IF interface_files[root] # {}
                             THEN "  srcs = glob(['*.java'], excludes=INTERFACE_FILES),"
                             ELSE "  srcs = glob(['*.java']),"
       IN \E order \in Orders(Range(files) \ interface_files[root]) :
             LET got == get_deps_for_files(root, order, main_buck_rule)
                 main_library_type ==
                     IF got.has_android_deps THEN "android_library" ELSE "java_library"
             IN /\ fs' = [fs EXCEPT ![root] =
                            Written(@.lines
                                      \o BUCK_FILE_TEMPLATE(main_library_type,
                                             path_basename(root), main_rule_srcs,
                                             format_deps_for_buck_file(
                                                 CHOOSE o \in Orders(got.deps) : TRUE)))]
                /\ buck_rules' = Append(buck_rules, main_buck_rule)
                /\ android_libraries' =
                      IF got.has_android_deps THEN android_libraries \cup {got.rule_name}
                      ELSE android_libraries
    /\ gen_walk' = Tail(gen_walk)
    /\ gen_pc' = "walk"
    /\ UNCHANGED <<mode, auditVars, fmtVars, last, parseVars, pc, idx, files_changed, pass_count, settled,
                   build, tool, writes, added, resolveVars, interface_files>>

\* return buck_files
WalkDone ==
    /\ mode = "generate"
    /\ gen_pc = "walk"
    /\ gen_walk = <<>>
    /\ gen_pc' = "returned"
    /\ UNCHANGED <<mode, auditVars, fmtVars, editVars, parseVars, loopVars, resolveVars, gen_walk,
                   interface_files>>

GenNext == WalkSkip \/ EmitInterfaceRule \/ EmitMainRule \/ WalkDone

(***************************************************************************)
(* The generator on a small project: src/a holds A.java, src/b holds some  *)
(* of the interfaces I.java and J.java, the class K.java, N.txt and BUCK.  *)
(***************************************************************************)
DirSrcB == <<115, 114, 99, 47, 98>>         \* 'src/b'
FileJ == <<74, 46, 106, 97, 118, 97>>       \* 'J.java'
FileK == <<75, 46, 106, 97, 118, 97>>       \* 'K.java'

\* 'b.<name>' for the file '<name>.java'
ClassInB(file) == DirB \o <<Dot>> \o SubSeq(file, 1, Len(file) - Len(JavaSuffix))

\* The listings os.walk may give for src/b.
GenListings ==
    {<<FileI>>, <<FileK>>, <<FileI, FileJ>>, <<FileJ, FileI>>, <<FileK, FileJ, FileI>>,
     <<FileN, FileK>>, <<FileN>>, <<<<66, 85, 67, 75>>, FileI>>}

\* What a file of the project holds.
GenContent(file, a_lines) ==
    IF file = FileA THEN a_lines \o <<ClassDecl>>
    ELSE IF file \in {FileI, FileJ, FileN} THEN <<InterfaceDecl>>
    ELSE IF file = FileK THEN <<ClassDecl>>
    ELSE <<>>

RECURSIVE DirTree(_, _, _)
DirTree(root, files, a_lines) ==
    IF files = <<>> THEN <<>>
    ELSE (path_join(root, Head(files)) :> GenContent(Head(files), a_lines))
           @@ DirTree(root, Tail(files), a_lines)

GenInit ==
    /\ mode = "generate"
    /\ FmtIdle
    /\ EditIdle
    /\ ParseIdle
    /\ LoopIdle
    /\ GetDepsIdle
    /\ AuditIdle
    /\ src_roots = <<RootSrc>>
    /\ third_party_map = [c \in {} |-> TargetLib]
    /\ split_interfaces \in BOOLEAN
    /\ \E listing \in GenListings :
       \E a_lines \in UNION {[1..n -> {ImportLine(ClassInB(f)) : f \in {FileI, FileJ, FileK}}] :
                                n \in 0..MaxImports} :
          /\ tree = DirTree(DirSrcA, <<FileA>>, a_lines) @@ DirTree(DirSrcB, listing, a_lines)
          /\ gen_walk \in {<<[root |-> DirSrcB, files |-> listing],
                             [root |-> DirSrcA, files |-> <<FileA>>]>>,
                           <<[root |-> DirSrcA, files |-> <<FileA>>],
                             [root |-> DirSrcB, files |-> listing]>>}
    /\ gen_pc = "walk"
    /\ interface_files = <<>>

SpecGenerate == GenInit /\ [][GenNext]_vars

\* The source files of a directory that hold a line matching the
\* interface-declaration pattern.
DeclaringInterface(root, files) ==
    {f \in Range(files) :
        /\ endswith(f, JavaSuffix)
        /\ \E i \in 1..Len(tree[path_join(root, f)]) :
              INTERFACE_DECLARATION(tree[path_join(root, f)][i])}

\* C14: the interface subset computed for a directory is the set of its
\* source files holding an interface declaration when interfaces are split
\* and empty when they are not; the interface rule is emitted exactly when
\* the subset is not empty, and then before the main rule, which follows.
C14_InterfaceClassification ==
    /\ [][(mode = "generate" /\ gen_pc = "walk" /\ gen_pc' = "main")
          => LET root == Head(gen_walk).root
                 expected == IF split_interfaces
                             THEN DeclaringInterface(root, Head(gen_walk).files) ELSE {}
             IN /\ interface_files'[root] = expected
                /\ buck_rules' =
                      IF expected = {} THEN buck_rules
                      ELSE Append(buck_rules,
                                  Target(root, path_basename(root) \o INTERFACE_SUFFIX))]_vars
    /\ [][(mode = "generate" /\ gen_pc = "main" /\ gen_pc' = "walk")
          => buck_rules' = Append(buck_rules, Target(Head(gen_walk).root,
                                                     path_basename(Head(gen_walk).root)))]_vars

\* C17: when the generator has returned, interfaces being split, the
\* dependency the resolver emitted into src/a's rule for each imported file
\* of the generated directory src/b names a rule the generator emitted, and
\* the file is among the named interface files of src/b exactly when the
\* dependency is the interface-suffixed one.
C17_ResolverAgreesWithGenerator ==
    (mode = "generate" /\ gen_pc = "returned" /\ split_interfaces
       /\ DirSrcB \in DOMAIN interface_files)
    => \A f \in {FileI, FileJ, FileK} :
          (/\ ImportLine(ClassInB(f)) \in Range(tree[path_join(DirSrcA, FileA)])
           /\ path_join(DirSrcB, f) \in DOMAIN tree)
          => LET hit == LocalScan(src_roots, replace(ClassInB(f), Dot, Slash) \o JavaSuffix)
                 dep == Target(hit.target_basename, hit.rule_name)
             IN /\ dep \in RuleDeps(fs, Target(DirSrcA, path_basename(DirSrcA)))
                /\ dep \in Range(buck_rules)
                /\ endswith(hit.rule_name, INTERFACE_SUFFIX)
                     <=> f \in interface_files[DirSrcB]

\* The text holds neither a "Try adding the following deps:" line nor a
\* line ending in "is missing deps:".
NoDiagnosticBlock(err) ==
    \A i \in 1..Len(err) :
        strip(err[i]) # TryAdding /\ ~endswith(strip(err[i]), MissingDeps)

\* C15: handling a target whose build succeeded, or failed with a text that
\* holds neither kind of block, leaves every declaration file as it was and
\* the pass's modification count as it was.
C15_NoActionWithoutDiagnostic ==
    [][(/\ mode = "loop"
        /\ pc = "built"
        /\ pc' = "for"
        /\ ~build.failed \/ NoDiagnosticBlock(build.err))
       => fs' = fs /\ files_changed' = files_changed]_vars

(***************************************************************************)
(* The Cycle Analyzer: get_files_for_rule as find_smallest_dep calls it    *)
(***************************************************************************)
\* The targets a build file declares.
DeclaredRules(dir, file) ==
    {Target(dir, b.name) : b \in {c \in EditBlocks : \E i \in 1..Len(file.lines) :
                                     file.lines[i] = NameLine(c.name)}}

\* find_smallest_dep has taken `current` from the cycle the build tool
\* reported, a target some build file declares, and calls get_files_for_rule.
AuditInit ==
    /\ mode = "audit"
    /\ FmtIdle
    /\ ParseIdle
    /\ LoopIdle
    /\ ResolveIdle
    /\ GenIdle
    /\ last = [done |-> FALSE]
    /\ \E f \in EditFiles :
          /\ fs = (DirA :> f)
          /\ a_rule \in DeclaredRules(DirA, f)
    /\ a_existing_deps = {}
    /\ a_before = fs
    /\ a_calls = 1
    /\ a_pc = "call"

\* modify_buck_rule(buck_rule, new_deps_fn=empty_deps): empty_deps records
\* the set it is handed in existing_deps and returns the empty set.
ClearDeps ==
    /\ mode = "audit"
    /\ a_pc = "call"
    /\ LET r == modify_buck_rule(fs, a_rule, ConstFn({}), NoKind) IN
          IF r.raised
          THEN /\ a_pc' = "raised"
               /\ UNCHANGED <<fs, a_existing_deps>>
          ELSE /\ fs' = r.fs
               /\ a_existing_deps' = a_existing_deps \cup UNION r.passed
               /\ a_pc' = "cleared"
    /\ UNCHANGED <<mode, genVars, resolveVars, fmtVars, last, parseVars, loopVars,
                   a_rule, a_before, a_calls>>

\* subprocess.check_output(['buck', 'audit', 'input', buck_rule]): the
\* listing comes back, or the tool exits non-zero and CalledProcessError
\* leaves get_files_for_rule.
AuditInput ==
    /\ mode = "audit"
    /\ a_pc = "cleared"
    /\ \/ a_pc' = "audited"
       \/ a_pc' = "raised"
    /\ UNCHANGED <<mode, genVars, resolveVars, fmtVars, editVars, parseVars, loopVars,
                   a_rule, a_existing_deps, a_before, a_calls>>

\* modify_buck_rule(buck_rule, new_deps_fn=existing_deps.union)
RestoreDeps ==
    /\ mode = "audit"
    /\ a_pc = "audited"
    /\ LET r == modify_buck_rule(fs, a_rule, UnionFn(a_existing_deps), NoKind) IN
          IF r.raised
          THEN /\ a_pc' = "raised"
               /\ UNCHANGED fs
          ELSE /\ fs' = r.fs
               /\ a_pc' = "returned"
    /\ UNCHANGED <<mode, genVars, resolveVars, fmtVars, last, parseVars, loopVars,
                   a_rule, a_existing_deps, a_before, a_calls>>

\* find_smallest_dep calls get_files_for_rule(current) a second time.
SecondCall ==
    /\ mode = "audit"
    /\ a_pc = "returned"
    /\ a_calls = 1
    /\ a_calls' = 2
    /\ a_existing_deps' = {}
    /\ a_before' = fs
    /\ a_pc' = "call"
    /\ UNCHANGED <<mode, genVars, resolveVars, fmtVars, editVars, parseVars, loopVars, a_rule>>

\* pdb.set_trace() after the two calls: find_smallest_dep goes no further.
DebuggerStop ==
    /\ mode = "audit"
    /\ a_pc = "returned"
    /\ a_calls = 2
    /\ a_pc' = "stopped"
    /\ UNCHANGED <<mode, genVars, resolveVars, fmtVars, editVars, parseVars, loopVars,
                   a_rule, a_existing_deps, a_before, a_calls>>

AuditNext == ClearDeps \/ AuditInput \/ RestoreDeps \/ SecondCall \/ DebuggerStop

SpecAudit == AuditInit /\ [][AuditNext]_vars

\* Every declared target holds the dependencies it held when
\* get_files_for_rule was called.
DepsAsBefore ==
    \A r \in DeclaredRules(DirA, a_before[DirA]) : RuleDeps(fs, r) = RuleDeps(a_before, r)

\* C16: the audit query runs while the target's declaration holds no
\* dependency, and once get_files_for_rule is over, by returning or by the
\* audit query failing, every target holds the dependencies it held before
\* the call.
C16_ClearThenRestore ==
    mode = "audit" =>
        /\ a_pc = "audited" => RuleDeps(fs, a_rule) = {}
        /\ a_pc \in {"returned", "raised", "stopped"} => DepsAsBefore

====
